---- MODULE Spec2Model ----
(***************************************************************************)
(* Model of pysplit/mapmaker.py: the parameter pre-processing that         *)
(* traj_scatter, meteo_contouring and adjust_contourparams perform before  *)
(* they hand their data to the plotting backend.                           *)
(*                                                                         *)
(* Every call is one action.  The module is synchronous: the caller makes  *)
(* a call when none is pending (fn = "idle") and then takes its outcome    *)
(* (Resume).  The state records the pending call (its function, its        *)
(* arguments and its outcome: the exception it raised or what it handed to *)
(* the backend) and the one object that outlives a call: the list bound to *)
(* the default of adjust_contourparams' `colors`.                          *)
(***************************************************************************)
EXTENDS Integers, Sequences, FiniteSets, TLC

VARIABLES fn, args, out, defaultColors

vars == <<fn, args, out, defaultColors>>

(***************************************************************************)
(* Bounds of the model.                                                    *)
(***************************************************************************)
MaxLen == 2        \* longest 1-D data / sizedata array
MaxLevels == 3     \* largest `levels` of traj_scatter
MaxSteps == 4      \* largest `steps` of meteo_contouring
MaxDim == 2        \* longest coordinate axis of meteo_contouring
MaxContours == 2   \* longest `contours` list of adjust_contourparams
MaxColors == 2     \* longest `colors` list of adjust_contourparams

(***************************************************************************)
(* Python values.                                                          *)
(***************************************************************************)
\* An optional argument: Python's None, or a value.
None(dummy) == [none |-> TRUE, v |-> dummy]
Some(x) == [none |-> FALSE, v |-> x]

NoneNum == None(0)
NoneStr == None(<<>>)
NoneSeq == None(<<>>)

\* Sequences over S of length lo..hi.
SeqsOf(S, lo, hi) == UNION {[1..n -> S] : n \in lo..hi}

Min(S) == CHOOSE x \in S : \A y \in S : x <= y
Max(S) == CHOOSE x \in S : \A y \in S : x >= y
Range(s) == {s[i] : i \in 1..Len(s)}

\* A str is the sequence of its characters.
LowerOf == [c \in {"B", "O", "U", "N", "D", "A", "R", "Y", "L", "G", "S", "Q", "T"} |->
              CASE c = "B" -> "b" [] c = "O" -> "o" [] c = "U" -> "u"
                [] c = "N" -> "n" [] c = "D" -> "d" [] c = "A" -> "a"
                [] c = "R" -> "r" [] c = "Y" -> "y" [] c = "L" -> "l"
                [] c = "G" -> "g" [] c = "S" -> "s" [] c = "Q" -> "q"
                [] c = "T" -> "t"]
UpperOf == [c \in {"b", "o", "u", "n", "d", "a", "r", "y", "l", "g", "s", "q", "t"} |->
              CHOOSE u \in DOMAIN LowerOf : LowerOf[u] = c]

\* str.lower(s): every cased character in lower case.
str_lower(s) == [i \in 1..Len(s) |-> IF s[i] \in DOMAIN LowerOf THEN LowerOf[s[i]] ELSE s[i]]
str_upper(s) == [i \in 1..Len(s) |-> IF s[i] \in DOMAIN UpperOf THEN UpperOf[s[i]] ELSE s[i]]
str_capitalize(s) == [i \in 1..Len(s) |-> IF i = 1 THEN str_upper(s)[i] ELSE s[i]]

\* The string literals of traj_scatter.
LitBoundary == <<"b", "o", "u", "n", "d", "a", "r", "y">>
LitLog == <<"l", "o", "g">>
LitLn == <<"l", "n">>
LitSqrt == <<"s", "q", "r", "t">>

\* `a is 'literal'`: object identity.  str.lower builds its result at run
\* time; whether that object is the very object of an equal literal is left
\* to the interpreter (`interned`).
Is(a, lit, interned) == a = lit /\ interned

(***************************************************************************)
(* numpy, as far as this module uses it.                                   *)
(***************************************************************************)
\* The attributes this module reads from numpy that numpy has.  There is no
\* numpy.ln: the natural logarithm is numpy.log.
NumpyAttrs == {"sqrt", "log10", "log", "linspace", "meshgrid", "random"}

\* An array element: the number k * f(x), f one of "id", "log", "log10",
\* "sqrt".  Input data are the plain integers Num(x).
Num(x) == [f |-> "id", x |-> x, k |-> 1]

\* The ufuncs np.log, np.log10, np.sqrt: applied to every element.  Outside
\* its domain a ufunc yields nan or -inf, it does not raise.
ufunc(name, arr) == [i \in 1..Len(arr) |-> [f |-> name, x |-> arr[i].x, k |-> arr[i].k]]

\* arr * size, elementwise.
times(arr, size) == [i \in 1..Len(arr) |-> [f |-> arr[i].f, x |-> arr[i].x, k |-> arr[i].k * size]]

\* data.min(), data.max() of a 1-D array of plain numbers.
amin(arr) == Min({arr[i].x : i \in 1..Len(arr)})
amax(arr) == Max({arr[i].x : i \in 1..Len(arr)})

\* np.linspace(start, stop, num): num samples, the i-th being
\* start + i * (stop - start) / (num - 1), the last one stop.  A sample is
\* the fraction n / d.  num = 1 yields only start, num = 0 nothing and a
\* negative num raises ValueError (ok = FALSE).
linspace(start, stop, num) ==
    IF num < 0 THEN [ok |-> FALSE, v |-> <<>>]
    ELSE LET div == IF num > 1 THEN num - 1 ELSE 1
             y == [i \in 1..num |-> [n |-> start * div + (i - 1) * (stop - start), d |-> div]]
         IN  [ok |-> TRUE,
              v |-> IF num > 1 THEN [y EXCEPT ![num] = [n |-> stop * div, d |-> div]] ELSE y]

(***************************************************************************)
(* traj_scatter                                                            *)
(***************************************************************************)
NoNorm == [kind |-> "None", boundaries |-> <<>>]

\* The call raised `exc`; nothing reached the backend.
ScatterRaise(exc) ==
    [raised |-> exc, called |-> FALSE, c |-> <<>>,
     s |-> [isarray |-> FALSE, scalar |-> 0, arr |-> <<>>],
     vmin |-> NoneNum, vmax |-> NoneNum, norm |-> NoNorm]

\* cavemap.scatter(lons, lats, c=data, s=size, vmin=vmin, vmax=vmax, norm=norm)
ScatterCall(data, size, vmin, vmax, norm) ==
    [raised |-> "", called |-> TRUE, c |-> data, s |-> size,
     vmin |-> vmin, vmax |-> vmax, norm |-> norm]

\* transform_dict: the keys are the lower-case names, 'ln' is bound to np.ln.
transform_dict == [key \in {LitSqrt, LitLog, LitLn} |->
                     CASE key = LitSqrt -> "sqrt" [] key = LitLog -> "log10" [] key = LitLn -> "ln"]

\* Lines 90-93: the marker sizes.
ScatterSize(a) ==
    IF ~a.sizedata.none
    THEN IF ~a.snormalize.none
         THEN IF a.snormalize.v \notin DOMAIN transform_dict
              THEN [ok |-> FALSE, s |-> [isarray |-> FALSE, scalar |-> 0, arr |-> <<>>]]
              ELSE [ok |-> TRUE,
                    s |-> [isarray |-> TRUE, scalar |-> 0,
                           arr |-> times(ufunc(transform_dict[a.snormalize.v], a.sizedata.v), a.size)]]
         ELSE [ok |-> TRUE,
               s |-> [isarray |-> TRUE, scalar |-> 0, arr |-> times(a.sizedata.v, a.size)]]
    ELSE [ok |-> TRUE, s |-> [isarray |-> FALSE, scalar |-> a.size, arr |-> <<>>]]

\* Lines 74-88: the colour normalisation; cn is the lowered mode name.
ScatterColor(a, cn) ==
    IF Is(cn, LitBoundary, a.interned)
    THEN LET vmin == IF a.vmin.none THEN Some(amin(a.data)) ELSE a.vmin
             vmax == IF a.vmax.none THEN Some(amax(a.data)) ELSE a.vmax
             bounds == linspace(vmin.v, vmax.v, a.levels)
         IN  [ok |-> bounds.ok, data |-> a.data, vmin |-> vmin, vmax |-> vmax,
              norm |-> [kind |-> "BoundaryNorm", boundaries |-> bounds.v]]
    ELSE IF Is(cn, LitLog, a.interned)
    THEN [ok |-> TRUE, data |-> a.data, vmin |-> a.vmin, vmax |-> a.vmax,
          norm |-> [kind |-> "LogNorm", boundaries |-> <<>>]]
    ELSE IF Is(cn, LitLn, a.interned)
    THEN [ok |-> TRUE, data |-> ufunc("log", a.data), vmin |-> a.vmin, vmax |-> a.vmax,
          norm |-> NoNorm]
    ELSE IF Is(cn, LitSqrt, a.interned)
    THEN [ok |-> TRUE, data |-> ufunc("sqrt", a.data), vmin |-> a.vmin, vmax |-> a.vmax,
          norm |-> NoNorm]
    ELSE [ok |-> TRUE, data |-> a.data, vmin |-> a.vmin, vmax |-> a.vmax, norm |-> NoNorm]

\* traj_scatter(data, lons, lats, cavemap, size, sizedata, cnormalize,
\*              snormalize, vmin, vmax, levels): the outcome of the call.
traj_scatter(a) ==
    IF a.cnormalize.none
    THEN ScatterRaise("TypeError")             \* str.lower(None)
    ELSE IF "ln" \notin NumpyAttrs
    THEN ScatterRaise("AttributeError")        \* np.ln, building transform_dict
    ELSE LET col == ScatterColor(a, str_lower(a.cnormalize.v))
             siz == ScatterSize(a)
         IN  IF ~col.ok THEN ScatterRaise("ValueError")
             ELSE IF ~siz.ok THEN ScatterRaise("KeyError")
             ELSE ScatterCall(col.data, siz.s, col.vmin, col.vmax, col.norm)

\* The arguments a caller may pass to traj_scatter.
DataVals == {-1, 0, 1, 10}
DataArrays == {[i \in 1..Len(s) |-> Num(s[i])] : s \in SeqsOf(DataVals, 1, MaxLen)}
ModeNames == {LitBoundary, LitLog, LitLn, LitSqrt}
Spellings(name) == {name, str_capitalize(name), str_upper(name)}
ModeArgs == {NoneStr} \cup {Some(sp) : sp \in UNION {Spellings(m) : m \in ModeNames}}
ScatterArgs ==
    [data : DataArrays, size : {25}, sizedata : {NoneSeq} \cup {Some(<<Num(1), Num(2)>>)},
     cnormalize : ModeArgs,
     snormalize : {NoneStr, Some(LitLog), Some(LitLn), Some(LitSqrt), Some(str_upper(LitLog))},
     vmin : {NoneNum, Some(0)}, vmax : {NoneNum, Some(4)},
     levels : 0..MaxLevels, interned : BOOLEAN]

CallTrajScatter ==
    /\ fn = "idle"
    /\ \E a \in ScatterArgs :
           /\ fn' = "traj_scatter"
           /\ args' = a
           /\ out' = traj_scatter(a)
           /\ UNCHANGED defaultColors

(***************************************************************************)
(* meteo_contouring                                                        *)
(***************************************************************************)
\* An ndarray: its number of dimensions and its elements (a sequence, or a
\* sequence of rows).
Arr1(v) == [ndim |-> 1, v |-> v]
Arr2(rows) == [ndim |-> 2, v |-> rows]

shape(arr) == IF arr.ndim = 1 THEN <<Len(arr.v)>> ELSE <<Len(arr.v), Len(arr.v[1])>>

Elements(arr) == IF arr.ndim = 1 THEN Range(arr.v) ELSE UNION {Range(arr.v[i]) : i \in 1..Len(arr.v)}

\* np.meshgrid(x, y), default indexing 'xy': Len(y) rows of Len(x) columns,
\* X repeating x in every row and Y repeating y in every column.
meshgrid(x, y) ==
    [X |-> Arr2([i \in 1..Len(y.v) |-> [j \in 1..Len(x.v) |-> x.v[j]]]),
     Y |-> Arr2([i \in 1..Len(y.v) |-> [j \in 1..Len(x.v) |-> y.v[i]]])]

\* ContourLevels with the supplied vmin ignored: the lower bound is always
\* the minimum of the data.
ContourLevels_dataMin(a) ==
    LET vmin == Min(Elements(a.data))
        vmax == IF a.vmax.none THEN Max(Elements(a.data)) ELSE a.vmax.v
    IN  IF a.levels.none THEN linspace(vmin, vmax, a.steps)
        ELSE [ok |-> TRUE, v |-> a.levels.v]

\* Lines 192-198: the contour levels.
ContourLevels(a) ==
    LET vmin == IF a.vmin.none THEN Min(Elements(a.data)) ELSE a.vmin.v
        vmax == IF a.vmax.none THEN Max(Elements(a.data)) ELSE a.vmax.v
    IN  IF a.levels.none THEN linspace(vmin, vmax, a.steps)
        ELSE [ok |-> TRUE, v |-> a.levels.v]

\* ContourMesh with the axes passed to np.meshgrid in the other order.
ContourMesh_swapped(a) ==
    IF a.longitudes.ndim = 1 /\ a.data.ndim = 2
    THEN [X |-> meshgrid(a.latitudes, a.longitudes).Y, Y |-> meshgrid(a.latitudes, a.longitudes).X]
    ELSE [X |-> a.longitudes, Y |-> a.latitudes]

\* Lines 200-201: the coordinate mesh.
ContourMesh(a) ==
    IF a.longitudes.ndim = 1 /\ a.data.ndim = 2
    THEN meshgrid(a.longitudes, a.latitudes)
    ELSE [X |-> a.longitudes, Y |-> a.latitudes]

\* meteo_contouring(cavemap, data, longitudes, latitudes, contourf, vmin,
\*                  vmax, steps, levels): the outcome of the call.
meteo_contouring(a) ==
    LET lev == ContourLevels(a)
        mesh == ContourMesh(a)
    IN  IF ~lev.ok
        THEN [raised |-> "ValueError", called |-> FALSE, method |-> "",
              x |-> a.longitudes, y |-> a.latitudes, data |-> a.data, levels |-> <<>>]
        ELSE [raised |-> "", called |-> TRUE,
              method |-> IF a.contourf THEN "contourf" ELSE "contour",
              x |-> mesh.X, y |-> mesh.Y, data |-> a.data, levels |-> lev.v]

\* The arguments a caller may pass to meteo_contouring: a grid of N rows and
\* M columns with its axes (1-D) or its coordinate grids (2-D), or 1-D data.
GridVals == {0, 3}
Frac(x) == [n |-> x, d |-> 1]
LonAxis(m) == Arr1([j \in 1..m |-> 100 + j])
LatAxis(n) == Arr1([i \in 1..n |-> 200 + i])
ContourForms == {"axes", "mesh", "flat"}
ContourOptions ==
    [contourf : BOOLEAN, vmin : {NoneNum, Some(1)}, vmax : {NoneNum, Some(5)},
     steps : 0..MaxSteps, levels : {NoneSeq, Some(<<Frac(7), Frac(2)>>)}]
ContourArgs(form, n, m, rows, o) ==
    [data |-> IF form = "flat" THEN Arr1(rows[1]) ELSE Arr2(rows),
     longitudes |-> IF form = "mesh" THEN meshgrid(LonAxis(m), LatAxis(n)).X ELSE LonAxis(m),
     latitudes |-> IF form = "mesh" THEN meshgrid(LonAxis(m), LatAxis(n)).Y
                   ELSE IF form = "flat" THEN LatAxis(m) ELSE LatAxis(n),
     contourf |-> o.contourf, vmin |-> o.vmin, vmax |-> o.vmax, steps |-> o.steps,
     levels |-> o.levels]

CallMeteoContouring ==
    /\ fn = "idle"
    /\ \E form \in ContourForms, n \in 1..MaxDim, m \in 1..MaxDim, o \in ContourOptions :
        \E rows \in [1..n -> [1..m -> GridVals]] :
            /\ form = "flat" => n = 1
            /\ fn' = "meteo_contouring"
            /\ args' = ContourArgs(form, n, m, rows, o)
            /\ out' = meteo_contouring(args')
            /\ UNCHANGED defaultColors

(***************************************************************************)
(* adjust_contourparams                                                    *)
(***************************************************************************)
\* The lists the call can reach: the list bound to the default of `colors`
\* (def), the caller's colors and contours lists (arg, contours) and the
\* list line 243 builds (fresh).  The local name `colors` is bound to one of
\* def, arg, fresh.
\* BroadcastColors writing the repeated colour into the list `colors` is
\* bound to (colors[:] = ...) instead of binding the name to a new list.
BroadcastColors_inPlace(heap, ref) ==
    IF Len(heap.contours) # Len(heap[ref])
    THEN IF Len(heap[ref]) = 0
         THEN [ok |-> FALSE, heap |-> heap, ref |-> ref]
         ELSE [ok |-> TRUE, ref |-> ref,
               heap |-> [heap EXCEPT ![ref] = [i \in 1..Len(heap.contours) |-> heap[ref][1]]]]
    ELSE [ok |-> TRUE, heap |-> heap, ref |-> ref]

\* Lines 242-243: on a length mismatch `colors` is bound to a new list that
\* repeats colors[0]; colors[0] of an empty list raises IndexError.
BroadcastColors(heap, ref) ==
    IF Len(heap.contours) # Len(heap[ref])
    THEN IF Len(heap[ref]) = 0
         THEN [ok |-> FALSE, heap |-> heap, ref |-> ref]
         ELSE [ok |-> TRUE, ref |-> "fresh",
               heap |-> [heap EXCEPT !.fresh = [i \in 1..Len(heap.contours) |-> heap[ref][1]]]]
    ELSE [ok |-> TRUE, heap |-> heap, ref |-> ref]

\* contours.index(level): the first position of level.
index(list, x) == Min({i \in 1..Len(list) : list[i] = x})

\* AdjustOne taking the colour at the level's own position in cm.levels
\* instead of its position in `contours`.
AdjustOne_ownColor(level, coll, contours, colors, visible, kwargs) ==
    IF level \in Range(contours)
    THEN LET color == colors[Min({level, Len(colors)})]
             c1 == [coll EXCEPT !.setp = coll.setp \/ kwargs]
         IN  IF color # "None" THEN [c1 EXCEPT !.color = color] ELSE c1
    ELSE IF ~visible THEN [coll EXCEPT !.alpha = 0] ELSE coll

\* Lines 246-254: one contour collection.
AdjustOne(level, coll, contours, colors, visible, kwargs) ==
    IF level \in Range(contours)
    THEN LET color == colors[index(contours, level)]
             c1 == [coll EXCEPT !.setp = coll.setp \/ kwargs]
         IN  IF color # "None" THEN [c1 EXCEPT !.color = color] ELSE c1
    ELSE IF ~visible THEN [coll EXCEPT !.alpha = 0] ELSE coll

\* Line 245: zip(cm.levels, cm.collections) stops at the shorter of the two.
ZipLen(cm) == Min({Len(cm.levels), Len(cm.collections)})

\* adjust_contourparams(cm, contours, colors, othercontours_visible,
\*                      **kwargs): the outcome of the call and the lists
\* after it; dflt is the list bound to the default of `colors`.
adjust_contourparams(a, dflt) ==
    LET heap0 == [def |-> dflt, arg |-> a.colors.v, contours |-> a.contours, fresh |-> <<>>]
        ref0 == IF a.colors.none THEN "def" ELSE "arg"
        b == BroadcastColors(heap0, ref0)
    IN  [raised |-> IF b.ok THEN "" ELSE "IndexError",
         collections |->
             IF b.ok
             THEN [k \in 1..Len(a.cm.collections) |->
                     IF k <= ZipLen(a.cm)
                     THEN AdjustOne(a.cm.levels[k], a.cm.collections[k], b.heap.contours,
                                    b.heap[b.ref], a.othercontours_visible, a.kwargs)
                     ELSE a.cm.collections[k]]
             ELSE a.cm.collections,
         def |-> b.heap.def, colors |-> b.heap.arg, contours |-> b.heap.contours]

\* The arguments a caller may pass to adjust_contourparams: a contour set of
\* three levels, drawn as lines (a collection per level) or filled (a
\* collection per interval).
Collection == [color |-> "orig", alpha |-> 1, setp |-> FALSE]
ContourSets == {[levels |-> <<1, 2, 3>>, collections |-> [k \in 1..n |-> Collection]] : n \in {2, 3}}
Colors == {"None", "red", "blue"}
AdjustArgs ==
    [cm : ContourSets, contours : SeqsOf({1, 3, 4}, 0, MaxContours),
     colors : {NoneSeq} \cup {Some(c) : c \in SeqsOf(Colors, 0, MaxColors)},
     othercontours_visible : BOOLEAN, kwargs : BOOLEAN]

CallAdjustContourparams ==
    /\ fn = "idle"
    /\ \E a \in AdjustArgs :
           /\ fn' = "adjust_contourparams"
           /\ args' = a
           /\ out' = adjust_contourparams(a, defaultColors)
           /\ defaultColors' = adjust_contourparams(a, defaultColors).def

(***************************************************************************)
(* The module after import: no call yet, `colors` defaults to [None].      *)
(***************************************************************************)
\* The caller takes the outcome of the call; the module keeps nothing of it.
Resume ==
    /\ fn # "idle"
    /\ fn' = "idle"
    /\ args' = <<>>
    /\ out' = <<>>
    /\ UNCHANGED defaultColors

Init ==
    /\ fn = "idle"
    /\ args = <<>>
    /\ out = <<>>
    /\ defaultColors = <<"None">>

Next ==
    \/ CallTrajScatter
    \/ CallMeteoContouring
    \/ CallAdjustContourparams
    \/ Resume

Spec == Init /\ [][Next]_vars

(***************************************************************************)
(* Properties of traj_scatter.                                             *)
(***************************************************************************)
\* The value of the fraction q is x.
FracIs(q, x) == q.n = x * q.d

\* The fractions of s have one denominator and equal steps.
EvenlySpaced(s) ==
    /\ \A i \in 1..Len(s) : s[i].d = s[1].d
    /\ \A i \in 2..Len(s) - 1 : s[i + 1].n - s[i].n = s[2].n - s[1].n

\* The pending call is traj_scatter with a spelling of the mode `name`.
ScatterMode(name) ==
    /\ fn = "traj_scatter"
    /\ ~args.cnormalize.none
    /\ args.cnormalize.v \in Spellings(name)

\* The bounds of the colour scale: supplied, or else those of the data.
WantVmin == IF args.vmin.none THEN amin(args.data) ELSE args.vmin.v
WantVmax == IF args.vmax.none THEN amax(args.data) ELSE args.vmax.v

\* C1: with cnormalize left at None the call completes and hands the
\* backend the data unchanged and norm = None.
C1_NoneModeCompletes ==
    (fn = "traj_scatter" /\ args.cnormalize.none) =>
        /\ out.raised = ""
        /\ out.called
        /\ out.c = args.data
        /\ out.norm.kind = "None"

\* C2: in boundary mode with levels = n >= 2 the descriptor is built from
\* exactly n evenly spaced boundaries, the first vmin and the last vmax
\* (supplied, or else the minimum / maximum of the data).
C2_BoundaryLevels ==
    (ScatterMode(LitBoundary) /\ args.cnormalize.v = LitBoundary /\ args.levels >= 2) =>
        /\ out.called
        /\ out.norm.kind = "BoundaryNorm"
        /\ Len(out.norm.boundaries) = args.levels
        /\ FracIs(out.norm.boundaries[1], WantVmin)
        /\ FracIs(out.norm.boundaries[args.levels], WantVmax)
        /\ EvenlySpaced(out.norm.boundaries)

\* C3: in boundary mode every call with levels < 2 fails with a
\* ConfigurationError before anything is handed to the backend.
C3_FewLevelsRejected ==
    (ScatterMode(LitBoundary) /\ args.levels < 2) =>
        /\ out.raised = "ConfigurationError"
        /\ ~out.called

\* C4: log and ln fail with DomainError when a data value is <= 0, sqrt
\* when a data value is negative, and none of the three fails on data whose
\* values are all positive.
C4_DomainChecks ==
    /\ (ScatterMode(LitLog) \/ ScatterMode(LitLn)) =>
           IF \E i \in 1..Len(args.data) : args.data[i].x <= 0
           THEN out.raised = "DomainError" ELSE out.raised = ""
    /\ ScatterMode(LitSqrt) =>
           /\ (\E i \in 1..Len(args.data) : args.data[i].x < 0) => out.raised = "DomainError"
           /\ (\A i \in 1..Len(args.data) : args.data[i].x > 0) => out.raised = ""

\* C5: every spelling of a mode name takes that mode's branch: boundary
\* hands over a boundary descriptor, log a logarithmic descriptor and the
\* data unchanged, ln / sqrt the transformed data and no descriptor.
C5_CaseInsensitive ==
    /\ ScatterMode(LitBoundary) => (out.called /\ out.norm.kind = "BoundaryNorm" /\ out.c = args.data)
    /\ ScatterMode(LitLog) => (out.called /\ out.norm.kind = "LogNorm" /\ out.c = args.data)
    /\ ScatterMode(LitLn) => (out.called /\ out.norm.kind = "None" /\ out.c = ufunc("log", args.data))
    /\ ScatterMode(LitSqrt) => (out.called /\ out.norm.kind = "None" /\ out.c = ufunc("sqrt", args.data))

\* The transform a size mode names, whatever its spelling.
WantSizeTransform(arr) ==
    IF args.snormalize.none THEN arr
    ELSE IF args.snormalize.v \in Spellings(LitLog) THEN ufunc("log10", arr)
    ELSE IF args.snormalize.v \in Spellings(LitLn) THEN ufunc("log", arr)
    ELSE ufunc("sqrt", arr)

\* C6: with sizedata the marker sizes handed to the backend are
\* transform(sizedata) * size, without sizedata the base size, for every
\* colour mode.
C6_SizeScaling ==
    fn = "traj_scatter" =>
        /\ out.called
        /\ IF args.sizedata.none
           THEN ~out.s.isarray /\ out.s.scalar = args.size
           ELSE out.s.isarray /\ out.s.arr = times(WantSizeTransform(args.sizedata.v), args.size)

(***************************************************************************)
(* Properties of meteo_contouring.                                         *)
(***************************************************************************)
ContourVmin == IF args.vmin.none THEN Min(Elements(args.data)) ELSE args.vmin.v
ContourVmax == IF args.vmax.none THEN Max(Elements(args.data)) ELSE args.vmax.v

\* The levels are `steps` evenly spaced values from vmin to vmax inclusive.
SpansBounds ==
    /\ Len(out.levels) = args.steps
    /\ args.steps >= 1 =>
           /\ FracIs(out.levels[1], ContourVmin)
           /\ FracIs(out.levels[args.steps], ContourVmax)
           /\ EvenlySpaced(out.levels)

\* C7 as stated: without an explicit levels sequence the levels handed to
\* the backend are exactly `steps` evenly spaced values from vmin to vmax
\* inclusive, for every steps; an explicit sequence is handed over
\* unchanged.
C7_LevelsSpanBounds ==
    fn = "meteo_contouring" =>
        /\ out.called
        /\ IF args.levels.none THEN SpansBounds ELSE out.levels = args.levels.v

\* C7 as amended: without an explicit levels sequence and with steps >= 2
\* the levels are exactly `steps` evenly spaced values from vmin to vmax
\* inclusive; with steps = 1 the only level is vmin and with steps = 0 there
\* is none; an explicit sequence is handed over unchanged.
C7_LevelsSpanBoundsFromTwoSteps ==
    fn = "meteo_contouring" =>
        /\ out.called
        /\ IF ~args.levels.none THEN out.levels = args.levels.v
           ELSE IF args.steps >= 2 THEN SpansBounds
           ELSE IF args.steps = 1 THEN Len(out.levels) = 1 /\ FracIs(out.levels[1], ContourVmin)
           ELSE out.levels = <<>>

\* Levels were built from a supplied vmin and the maximum of the data.
C7_Witness ==
    /\ fn = "meteo_contouring"
    /\ out.called
    /\ args.levels.none /\ ~args.vmin.none /\ args.vmax.none
    /\ args.steps >= 3
    /\ Len(out.levels) = args.steps
    /\ ~FracIs(out.levels[2], ContourVmin)

GivenColors == IF args.colors.none THEN <<"None">> ELSE args.colors.v

FirstPosition(list, x) == CHOOSE i \in 1..Len(list) : list[i] = x /\ \A j \in 1..i - 1 : list[j] # x

\* Every collection whose level is listed in `contours` has the colour
\* want(level), and keeps its own colour when that is None.
Recolored(want(_)) ==
    \A k \in 1..Len(out.collections) :
        args.cm.levels[k] \in Range(args.contours) =>
            out.collections[k].color =
                IF want(args.cm.levels[k]) = "None" THEN args.cm.collections[k].color
                ELSE want(args.cm.levels[k])

\* The colour of a listed level: colors[0] on a length mismatch, else the
\* colour at the (first) position of the level in `contours`.
WantColor(level) ==
    IF Len(args.contours) # Len(GivenColors) THEN GivenColors[1]
    ELSE GivenColors[FirstPosition(args.contours, level)]

\* C9 as stated: the call never raises on a length mismatch between
\* contours and colors; colors[0] is then the colour of every listed level,
\* and with equal lengths the level at position i has colors[i].
C9_MismatchNeverRaises ==
    fn = "adjust_contourparams" =>
        /\ out.raised = ""
        /\ Recolored(WantColor)

\* C9 as amended: with a colors list that is not empty the call does not
\* raise on a length mismatch and colors[0] is then the colour of every
\* listed level; with equal lengths a listed level has the colour at its
\* first position in `contours`; a colour of None leaves the collection's
\* colour alone.  (A mismatch with an empty colors list raises IndexError.)
C9_NonEmptyColorsBroadcast ==
    fn = "adjust_contourparams" =>
        IF Len(args.contours) # Len(GivenColors) /\ GivenColors = <<>>
        THEN out.raised = "IndexError" /\ out.collections = args.cm.collections
        ELSE out.raised = "" /\ Recolored(WantColor)

\* Two colours for one listed level: the first was broadcast to it.
C9_Witness ==
    /\ fn = "adjust_contourparams"
    /\ out.raised = ""
    /\ Len(args.contours) = 1 /\ args.contours[1] = 3
    /\ ~args.colors.none /\ args.colors.v = <<"red", "blue">>
    /\ Len(args.cm.collections) = 3
    /\ out.collections[3].color = "red"

\* C10: whatever calls were made, the list bound to the default of `colors`
\* is still [None], the call leaves the caller's colors and contours lists
\* as they were, and a call that omits colors has the outcome of a first
\* such call.
C10_NoLeakThroughDefault ==
    /\ defaultColors = <<"None">>
    /\ fn = "adjust_contourparams" =>
           /\ out.def = <<"None">>
           /\ out.contours = args.contours
           /\ ~args.colors.none => out.colors = args.colors.v
           /\ args.colors.none => out = adjust_contourparams(args, <<"None">>)

\* A call that omitted colors broadcast the default over two levels.
C10_Witness ==
    /\ fn = "adjust_contourparams"
    /\ args.colors.none
    /\ Len(args.contours) = 2
    /\ out.raised = ""
    /\ defaultColors = <<"None">>

====
